---- MODULE Spec2Model ----
(***************************************************************************)
(* The pokemon HTTP service of src/index.js: the route handlers over the   *)
(* Record Store, the audit hook, the image fetcher and the integrity       *)
(* sealer.  Every await of a handler is one step: the awaited operation    *)
(* happens atomically and the handler runs on to its next await.           *)
(***************************************************************************)
EXTENDS Integers, Sequences, FiniteSets, TLC

\* Number of requests the service receives in one behaviour.
MaxReq == 3
\* Number of key/value pairs of a base-stat mapping handed to the sealer.
MaxKeys == 3

Reqs == 1..MaxReq

-----------------------------------------------------------------------------
(* JavaScript values *)

\* The value `undefined` of a string-valued field.
Undefined == "<undefined>"
\* A truthy value that is not a string (a number in the JSON body).
NumberValue == "<number>"

\* JS truthiness of a string-or-undefined value: `!x` is true for undefined and "".
Truthy(x) == x \notin {Undefined, ""}

\* String.prototype.toLowerCase / the regex flag 'i', on the strings of the model.
Lower(s) ==
  CASE s = "Pika" -> "pika"
    [] s = "Bulb" -> "bulb"
    [] s = "Autre" -> "autre"
    [] s = "Raichu" -> "raichu"
    [] s = "Image/PNG" -> "image/png"
    [] OTHER -> s

\* String.prototype.trim, on the strings of the model.
Trim(s) == IF s = " " THEN "" ELSE s

\* decodeURIComponent, on the strings of the model.
DecodeURIComponent(s) == IF s = "Bul%62" THEN "Bulb" ELSE s

\* body.name: undefined, a plain string, or an object with english/french fields.
NoName == [t |-> "undefined", s |-> Undefined, english |-> Undefined, french |-> Undefined]
StrName(s) == [t |-> "string", s |-> s, english |-> Undefined, french |-> Undefined]
ObjName(e, f) == [t |-> "object", s |-> Undefined, english |-> e, french |-> f]

\* body.base: undefined, a string, or an object (a sequence of <<key, value>>
\* pairs in insertion order).
NoBase == [t |-> "undefined", v |-> <<>>]
StrBase == [t |-> "string", v |-> <<>>]
ObjBase(v) == [t |-> "object", v |-> v]

\* The base-stat mapping of the well-formed bodies of the model.
Stats == <<<<"HP", 35>>, <<"Attack", 55>>>>

NoBody == [name |-> NoName, type |-> Undefined, base |-> NoBase,
           imageUrl |-> Undefined, id |-> 0]

-----------------------------------------------------------------------------
(* Integrity sealer *)

\* The fallback of INTEGRITY_SECRET when the environment sets none.
DefaultSecret == "pokedex-zero-trust-seal"
Secrets == {DefaultSecret, "env-secret"}

\* Stat names.  The last two are the same French word in Unicode NFC ("D",
\* U+00E9, "fense") and NFD ("De", U+0301, "fense"): distinct strings, distinct
\* object keys, canonically equivalent.
KeyNFC == "D<U+00E9>fense"
KeyNFD == "De<U+0301>fense"
StatKeys == {"HP", "Attack", KeyNFC, KeyNFD}
StatValues == {35, 55}

\* Position of a string in the collation order String.prototype.localeCompare
\* uses: canonically equivalent strings collate equal.
CollationRank(k) ==
  CASE k = "Attack" -> 1
    [] k = KeyNFC -> 2
    [] k = KeyNFD -> 2
    [] k = "HP" -> 3
    [] OTHER -> 4

\* a.localeCompare(b): negative, zero or positive.
LocaleCompare(a, b) == CollationRank(a) - CollationRank(b)

\* Object.keys(stats): the keys in insertion order.
ObjectKeys(stats) == [i \in 1..Len(stats) |-> stats[i][1]]

\* stats[key]
Lookup(stats, key) == (CHOOSE i \in 1..Len(stats) : stats[i][1] = key)

\* One step of the stable sort: k goes after every element that does not
\* compare greater than it.
InsertSorted(sorted, k) ==
  LET n == Cardinality({i \in 1..Len(sorted) : LocaleCompare(sorted[i], k) <= 0})
  IN  SubSeq(sorted, 1, n) \o <<k>> \o SubSeq(sorted, n + 1, Len(sorted))

RECURSIVE SortKeys(_)
\* Array.prototype.sort((a, b) => a.localeCompare(b)): a stable sort.
SortKeys(keys) ==
  IF keys = <<>> THEN <<>>
  ELSE InsertSorted(SortKeys(SubSeq(keys, 1, Len(keys) - 1)), keys[Len(keys)])

\* JSON.stringify of the object the reduce builds: its pairs in the order the
\* keys were added.
JsonOfSorted(stats) ==
  LET sortedKeys == SortKeys(ObjectKeys(stats))
  IN  [i \in 1..Len(sortedKeys) |-> stats[Lookup(stats, sortedKeys[i])]]

\* createHmac('sha256', secret).update(text).digest('hex'): a keyed hash, which
\* tells apart any two texts and any two secrets.
Hmac(secret, text) == <<"hmac-sha256", secret, text>>

GenerateIntegritySeal(stats, sealSecret) == Hmac(sealSecret, JsonOfSorted(stats))

\* plain.base as the sealer receives it: `stats = {}` when it is undefined.
StatsOf(base) == IF base.t = "object" THEN base.v ELSE <<>>

WithIntegrityHash(doc, sealSecret) ==
  [doc |-> doc, integrityHash |-> GenerateIntegritySeal(StatsOf(doc.base), sealSecret)]

-----------------------------------------------------------------------------
(* Image fetcher *)

GifUrl == "http://h/a.gif"

\* path.extname of the URL without its query string, lowercased.
ExtName(url) == IF url = GifUrl THEN ".gif" ELSE ""

\* contentTypeMap[contentType.toLowerCase()], "" when the map has no entry.
ContentTypeExt(contentType) ==
  CASE Lower(contentType) = "image/png" -> ".png"
    [] Lower(contentType) = "image/gif" -> ".gif"
    [] OTHER -> ""

GetImageExtension(contentType, imageUrl) ==
  IF ContentTypeExt(contentType) # "" THEN ContentTypeExt(contentType)
  ELSE IF ExtName(imageUrl) # "" THEN ExtName(imageUrl)
  ELSE ".png"

\* contentType.toLowerCase().startsWith('image/')
StartsWithImage(contentType) ==
  Lower(contentType) \in {"image/png", "image/gif", "image/webp"}

\* What the remote server may answer to the GET: response.ok and the
\* content-type header ("" when absent); thrown is a network error.
FetchOutcomes ==
  {[thrown |-> FALSE, ok |-> TRUE, contentType |-> c] :
      c \in {"image/png", "Image/PNG", "text/html"}}
  \cup {[thrown |-> FALSE, ok |-> FALSE, contentType |-> "image/png"],
        [thrown |-> TRUE, ok |-> FALSE, contentType |-> ""]}

\* downloadPokemonImage without its content-type check.
DownloadErrorNoTypeCheck(outcome) ==
  IF outcome.thrown THEN "fetch failed"
  ELSE IF ~outcome.ok THEN "Image download failed"
  ELSE ""

\* downloadPokemonImage: "" when it returns the image, else the reason it throws.
DownloadError(outcome) ==
  IF outcome.thrown THEN "fetch failed"
  ELSE IF ~outcome.ok THEN "Image download failed"
  ELSE IF ~StartsWithImage(outcome.contentType) THEN "Provided URL did not return an image"
  ELSE ""

-----------------------------------------------------------------------------
(* Requests *)

\* Maximum number of requests being handled at the same time.
MaxInFlight == 2

Create == "POST /pokemonCreate"
Update == "PUT /pokemonUpdate/:name"
Delete == "DELETE /pokemonDelete/:name"
Purge == "DELETE /pokemonsPurge"
ListAll == "GET /pokemons"
GetById == "GET /pokemons/:id"
GetByName == "GET /pokemonByName/:name"

\* req.method
Method(route) ==
  CASE route = Create -> "POST"
    [] route = Update -> "PUT"
    [] route \in {Delete, Purge} -> "DELETE"
    [] OTHER -> "GET"

\* parseInt(req.params.id, 10), on the strings of the model.
ParseInt(s) == CASE s = "1" -> 1 [] s = "2" -> 2 [] OTHER -> 9

TypeList == "[Electric]"

\* The names of the well-formed bodies: two that collide on the english name
\* up to case, two that collide on the french name up to case, one whose
\* english name is blank.
WellFormedNames ==
  {<<"Pika", "Pika">>, <<"pika", "Autre">>, <<"Bulb", "autre">>, <<" ", "Pika">>}

WellFormedBodies ==
  {[name |-> ObjName(n[1], n[2]), type |-> TypeList, base |-> ObjBase(Stats),
    imageUrl |-> GifUrl, id |-> 0] : n \in WellFormedNames}

\* Bodies over every combination of a present and an absent field, and the
\* other ways a field can be wrong.
ShapeBodies ==
  {[name |-> ObjName(e, "Pika"), type |-> t, base |-> b, imageUrl |-> u, id |-> 0] :
      e \in {"Pika", Undefined}, t \in {TypeList, "[]"},
      b \in {ObjBase(Stats), NoBase}, u \in {GifUrl, ""}}
  \cup {[name |-> n, type |-> TypeList, base |-> ObjBase(Stats),
         imageUrl |-> GifUrl, id |-> 0] :
          n \in {NoName, StrName("Pika"), ObjName("", "Pika"), ObjName("Pika", Undefined)}}
  \cup {[name |-> ObjName("Pika", "Pika"), type |-> "Electric", base |-> StrBase,
         imageUrl |-> NumberValue, id |-> 0],
        [name |-> ObjName("Pika", "Pika"), type |-> TypeList, base |-> StrBase,
         imageUrl |-> NumberValue, id |-> 0],
        [name |-> ObjName("Pika", "Pika"), type |-> TypeList, base |-> ObjBase(Stats),
         imageUrl |-> NumberValue, id |-> 0]}

CreateBodies == WellFormedBodies \cup ShapeBodies

\* Update bodies: a new id, a new name.
UpdateBodies ==
  {[NoBody EXCEPT !.id = 1], [NoBody EXCEPT !.name = ObjName("Pika", "Pika")]}

\* Delete bodies: none, or one that names some pokemon.
DeleteBodies == {NoBody, [NoBody EXCEPT !.name = StrName("Raichu")]}

PathNames == {"Pika", "Bulb"}

\* The requests a client may send.  app tells the two applications of the
\* source apart: "main" (lines 1-388) and "legacy" (lines 390-636).
Requests ==
  {[app |-> "main", route |-> Create, param |-> Undefined, body |-> b] : b \in CreateBodies}
  \cup {[app |-> "main", route |-> Update, param |-> n, body |-> b] :
          n \in PathNames, b \in UpdateBodies}
  \cup {[app |-> "main", route |-> Delete, param |-> "Pika", body |-> b] : b \in DeleteBodies}
  \cup {[app |-> "main", route |-> Delete, param |-> "Bulb", body |-> NoBody]}
  \cup {[app |-> "main", route |-> Purge, param |-> Undefined, body |-> NoBody],
        [app |-> "main", route |-> ListAll, param |-> Undefined, body |-> NoBody]}
  \cup {[app |-> a, route |-> GetById, param |-> i, body |-> NoBody] :
          a \in {"main", "legacy"}, i \in {"1", "7"}}
  \cup {[app |-> "main", route |-> GetByName, param |-> n, body |-> NoBody] :
          n \in {"Pika", "pika"}}
  \cup {[app |-> "legacy", route |-> GetByName, param |-> "Pika", body |-> NoBody]}

NoReq == [app |-> "none", route |-> "none", param |-> Undefined, body |-> NoBody]

-----------------------------------------------------------------------------
(* Audit hook *)

\* req.params when destructiveAuditMiddleware runs.  app.use mounts it with no
\* route path, ahead of the routes: no route has matched yet and the request
\* carries no path parameter.
ParamsAtMiddleware(request) == Undefined

ExtractPokemonNameForAudit(fromParams, body) ==
  IF Truthy(fromParams) THEN DecodeURIComponent(fromParams)
  ELSE IF body.name.t = "string" /\ Truthy(Trim(body.name.s)) THEN Trim(body.name.s)
  ELSE IF body.name.t = "object" /\ Truthy(body.name.english) THEN Trim(body.name.english)
  ELSE IF body.name.t = "object" /\ Truthy(body.name.french) THEN Trim(body.name.french)
  ELSE "unknown"

ActionMap(method) ==
  CASE method = "POST" -> "CREATE"
    [] method = "PUT" -> "UPDATE"
    [] method = "DELETE" -> "DELETE"
    [] OTHER -> method

NoAudit == [action |-> "none", pokemonName |-> Undefined]

\* What destructiveAuditMiddleware captures before the handler runs; NoAudit
\* when it registers no listener.
DestructiveAuditMiddleware(request) ==
  IF Method(request.route) \notin {"POST", "PUT", "DELETE"} THEN NoAudit
  ELSE [action |-> ActionMap(Method(request.route)),
        pokemonName |-> ExtractPokemonNameForAudit(ParamsAtMiddleware(request), request.body)]

\* The validators of auditLogSchema: action in the enum, pokemonName required
\* (a required string must be non-empty).
AuditLogValid(entry) ==
  /\ entry.action \in {"CREATE", "UPDATE", "DELETE"}
  /\ Truthy(entry.pokemonName)

-----------------------------------------------------------------------------
(* Create: the checks before the first await *)

\* name?.english and name?.french
NameEnglish(body) == IF body.name.t = "object" THEN body.name.english ELSE Undefined
NameFrench(body) == IF body.name.t = "object" THEN body.name.french ELSE Undefined

\* Array.isArray(type) && type.length > 0
IsNonEmptyArray(type) == type = TypeList

NameMessage == "name.english and name.french are required"
TypeMessage == "type must be a non-empty array"
BaseMessage == "base stats are required"
ImageUrlMessage == "imageUrl is required"

\* The checks with type looked at before name.
ValidateCreateTypeFirst(body) ==
  IF ~IsNonEmptyArray(body.type) THEN TypeMessage
  ELSE IF ~Truthy(NameEnglish(body)) \/ ~Truthy(NameFrench(body)) THEN NameMessage
  ELSE IF body.base.t # "object" THEN BaseMessage
  ELSE IF ~Truthy(body.imageUrl) \/ body.imageUrl = NumberValue THEN ImageUrlMessage
  ELSE ""

\* The error of the first failing check, "" when the body passes them all.
ValidateCreate(body) ==
  IF ~Truthy(NameEnglish(body)) \/ ~Truthy(NameFrench(body)) THEN NameMessage
  ELSE IF ~IsNonEmptyArray(body.type) THEN TypeMessage
  ELSE IF body.base.t # "object" THEN BaseMessage
  ELSE IF ~Truthy(body.imageUrl) \/ body.imageUrl = NumberValue THEN ImageUrlMessage
  ELSE ""

-----------------------------------------------------------------------------
(* Record Store *)

\* The fields of the pokemon collection that carry a unique index.  The
\* collection's schema declares none.
UniqueIndexes == {}

\* Whether the collection accepts doc beside docs.
StoreAccepts(docs, doc) ==
  \A f \in UniqueIndexes : \A d \in docs : d[f] # doc[f]

\* A regular expression `^<escaped pattern>$` with flag 'i', tested on value.
RegexExactI(pattern, value) == Lower(value) = Lower(pattern)

\* The duplicate query without its clause on the french name.
FindDuplicateEnglishOnly(docs, body) ==
  {d \in docs : RegexExactI(NameEnglish(body), d.english)}

\* pokemon.findOne({$or: [name.english ~ english, name.french ~ french]})
FindDuplicate(docs, body) ==
  {d \in docs : \/ RegexExactI(NameEnglish(body), d.english)
                \/ RegexExactI(NameFrench(body), d.french)}

\* pokemon.findOne({}).sort({id: -1}), then (latestPokemon?.id || 0) + 1
NextId(docs) ==
  IF docs = {} THEN 1
  ELSE (CHOOSE m \in {d.id : d \in docs} : \A d \in docs : d.id <= m) + 1

\* pokemon.findOne({'name.english': pokeName}): the documents it may return.
FindByEnglish(docs, pokeName) == {d \in docs : d.english = pokeName}

\* pokemon.findOne({id: pokeId}): the documents it may return.
FindById(docs, pokeId) == {d \in docs : d.id = pokeId}

\* findOneAndUpdate's update of the matched document by the request body.
ApplyUpdate(d, body) ==
  [d EXCEPT !.english = IF body.name.t = "object" THEN body.name.english ELSE @,
            !.french = IF body.name.t = "object" THEN body.name.french ELSE @,
            !.id = IF body.id # 0 THEN body.id ELSE @]

\* A purge that deletes one document only (deleteOne for deleteMany).
DeleteOne(docs) == IF docs = {} THEN {} ELSE docs \ {CHOOSE d \in docs : TRUE}

\* pokemon.deleteMany({}): the documents left.
DeleteMany(docs) == {}

\* fs.writeFile(<assets>/<newId><ext>, buffer) by request r: creates the file
\* or replaces its content.
WriteFile(files, name, r) ==
  {f \in files : f.name # name} \cup {[name |-> name, by |-> r]}

-----------------------------------------------------------------------------
(* State *)

VARIABLES
  store,            \* the pokemon collection: a set of documents
  images,           \* the files of assets/pokemons
  auditLog,         \* the auditLog collection
  secret,           \* INTEGRITY_SECRET
  req,              \* req[r]: the request r carries
  pc,               \* pc[r]: the await request r's handler is at
  status,           \* status[r]: res.statusCode once sent, 0 before
  respBody,         \* respBody[r]: the JSON sent
  auditPlan,        \* auditPlan[r]: action and pokemonName the listener holds
  local,            \* local[r]: newId and the fetch response of a Create
  cleanSincePurge,  \* a purge went through and no insert since
  sealStats,        \* two base-stat mappings with the same pairs
  sealHash          \* the seals read for them

vars == <<store, images, auditLog, secret, req, pc, status, respBody,
          auditPlan, local, cleanSincePurge, sealStats, sealHash>>

sealVars == <<sealStats, sealHash>>
serverVars == <<store, images, auditLog, req, pc, status, respBody,
                auditPlan, local, cleanSincePurge>>

NoOutcome == [thrown |-> FALSE, ok |-> FALSE, contentType |-> "<none>"]
NoLocal == [newId |-> 0, outcome |-> NoOutcome]
NoBodySent == [kind |-> "none", error |-> "", docs |-> {}, deletedCount |-> 0]
NoHash == <<>>

InternalError == "Internal Server Error"
StoreDown == "store unreachable"
NotFound == "Pokemon not found"

ErrorBody(message) == [NoBodySent EXCEPT !.kind = "error", !.error = message]
DocsBody(kind, docs) == [NoBodySent EXCEPT !.kind = kind, !.docs = docs]

ServerInit ==
  /\ store = {}
  /\ images = {}
  /\ auditLog = {}
  /\ req = [r \in Reqs |-> NoReq]
  /\ pc = [r \in Reqs |-> "idle"]
  /\ status = [r \in Reqs |-> 0]
  /\ respBody = [r \in Reqs |-> NoBodySent]
  /\ auditPlan = [r \in Reqs |-> NoAudit]
  /\ local = [r \in Reqs |-> NoLocal]
  /\ cleanSincePurge = FALSE

Init ==
  /\ ServerInit
  /\ secret = DefaultSecret
  /\ sealStats = <<<<>>, <<>>>>
  /\ sealHash = <<NoHash, NoHash>>

InFlight == {r \in Reqs : pc[r] \notin {"idle", "done"}}

\* res.status(code).json(body): the response is sent.
Respond(r, code, body) ==
  /\ status' = [status EXCEPT ![r] = code]
  /\ respBody' = [respBody EXCEPT ![r] = body]
  /\ pc' = [pc EXCEPT ![r] = "finish"]

\* The first await of each handler.
FirstAwait(route) ==
  CASE route = Create -> "dupCheck"
    [] route = Update -> "update"
    [] route = Delete -> "delete"
    [] route = Purge -> "purge"
    [] route = ListAll -> "list"
    [] route = GetById -> "getById"
    [] route = GetByName -> "getByName"

\* A request arrives: the audit middleware runs, then the handler up to its
\* first await.
Receive(r) ==
  /\ pc[r] = "idle"
  /\ \A earlier \in 1..(r - 1) : pc[earlier] # "idle"
  /\ Cardinality(InFlight) < MaxInFlight
  /\ \E q \in Requests :
       /\ req' = [req EXCEPT ![r] = q]
       /\ auditPlan' = [auditPlan EXCEPT ![r] =
             IF q.app = "main" THEN DestructiveAuditMiddleware(q) ELSE NoAudit]
       /\ IF q.route = Create /\ ValidateCreate(q.body) # ""
          THEN Respond(r, 400, ErrorBody(ValidateCreate(q.body)))
          ELSE /\ pc' = [pc EXCEPT ![r] = FirstAwait(q.route)]
               /\ UNCHANGED <<status, respBody>>
  /\ UNCHANGED <<store, images, auditLog, secret, local, cleanSincePurge, sealVars>>

-----------------------------------------------------------------------------
(* POST /pokemonCreate *)

\* await pokemon.findOne({$or: ...}): the duplicate check.
CreateDupCheck(r) ==
  /\ pc[r] = "dupCheck"
  /\ \E ok \in BOOLEAN :
       IF ~ok THEN Respond(r, 500, ErrorBody(StoreDown))
       ELSE IF FindDuplicate(store, req[r].body) # {}
       THEN Respond(r, 409, ErrorBody("Pokemon already exists (english or french name)"))
       ELSE /\ pc' = [pc EXCEPT ![r] = "latest"]
            /\ UNCHANGED <<status, respBody>>
  /\ UNCHANGED <<store, images, auditLog, secret, req, auditPlan, local,
                 cleanSincePurge, sealVars>>

\* await pokemon.findOne({}).sort({id: -1}).lean(), then newId.
CreateLatest(r) ==
  /\ pc[r] = "latest"
  /\ \E ok \in BOOLEAN :
       IF ~ok THEN Respond(r, 500, ErrorBody(StoreDown)) /\ UNCHANGED local
       ELSE /\ local' = [local EXCEPT ![r].newId = NextId(store)]
            /\ pc' = [pc EXCEPT ![r] = "fetch"]
            /\ UNCHANGED <<status, respBody>>
  /\ UNCHANGED <<store, images, auditLog, secret, req, auditPlan,
                 cleanSincePurge, sealVars>>

\* await downloadPokemonImage(imageUrl)
CreateFetch(r) ==
  /\ pc[r] = "fetch"
  /\ \E o \in FetchOutcomes :
       /\ local' = [local EXCEPT ![r].outcome = o]
       /\ IF DownloadError(o) # "" THEN Respond(r, 500, ErrorBody(DownloadError(o)))
          ELSE /\ pc' = [pc EXCEPT ![r] = "write"]
               /\ UNCHANGED <<status, respBody>>
  /\ UNCHANGED <<store, images, auditLog, secret, req, auditPlan,
                 cleanSincePurge, sealVars>>

\* `${newId}${imageExt}`
ImageFileName(r) ==
  <<local[r].newId, GetImageExtension(local[r].outcome.contentType, req[r].body.imageUrl)>>

\* await fs.writeFile(imageDiskPath, imageData.buffer)
CreateWrite(r) ==
  /\ pc[r] = "write"
  /\ \E ok \in BOOLEAN :
       IF ~ok THEN Respond(r, 500, ErrorBody("write failed")) /\ UNCHANGED images
       ELSE /\ images' = WriteFile(images, ImageFileName(r), r)
            /\ pc' = [pc EXCEPT ![r] = "insert"]
            /\ UNCHANGED <<status, respBody>>
  /\ UNCHANGED <<store, auditLog, secret, req, auditPlan, local,
                 cleanSincePurge, sealVars>>

\* The document handed to pokemon.create; _id is the ObjectId the store gives it.
NewPokemon(r) ==
  [_id |-> r, id |-> local[r].newId,
   english |-> req[r].body.name.english, french |-> req[r].body.name.french,
   base |-> req[r].body.base, image |-> ImageFileName(r)]

\* The insert with the duplicate query run again right before it: 409 when a
\* record of the name has arrived since the first check.
CreateInsertChecked(r) ==
  /\ pc[r] = "insert"
  /\ \E ok \in BOOLEAN :
       IF ~ok \/ ~StoreAccepts(store, NewPokemon(r))
       THEN Respond(r, 500, ErrorBody(StoreDown)) /\ UNCHANGED <<store, cleanSincePurge>>
       ELSE IF FindDuplicate(store, req[r].body) # {}
       THEN /\ Respond(r, 409, ErrorBody("Pokemon already exists (english or french name)"))
            /\ UNCHANGED <<store, cleanSincePurge>>
       ELSE /\ store' = store \cup {NewPokemon(r)}
            /\ cleanSincePurge' = FALSE
            /\ Respond(r, 201, DocsBody("pokemon", {WithIntegrityHash(NewPokemon(r), secret)}))
  /\ UNCHANGED <<images, auditLog, secret, req, auditPlan, local, sealVars>>

\* await pokemon.create(newPokemon), then 201 with the sealed document.
CreateInsert(r) ==
  /\ pc[r] = "insert"
  /\ \E ok \in BOOLEAN :
       IF ~ok \/ ~StoreAccepts(store, NewPokemon(r))
       THEN Respond(r, 500, ErrorBody(StoreDown)) /\ UNCHANGED <<store, cleanSincePurge>>
       ELSE /\ store' = store \cup {NewPokemon(r)}
            /\ cleanSincePurge' = FALSE
            /\ Respond(r, 201, DocsBody("pokemon", {WithIntegrityHash(NewPokemon(r), secret)}))
  /\ UNCHANGED <<images, auditLog, secret, req, auditPlan, local, sealVars>>

-----------------------------------------------------------------------------
(* PUT /pokemonUpdate/:name, DELETE /pokemonDelete/:name, DELETE /pokemonsPurge *)

\* await pokemon.findOneAndUpdate({'name.english': pokeName}, body, {new: true})
UpdateStep(r) ==
  /\ pc[r] = "update"
  /\ \E ok \in BOOLEAN :
       IF ~ok THEN Respond(r, 500, ErrorBody(InternalError)) /\ UNCHANGED store
       ELSE IF FindByEnglish(store, req[r].param) = {}
       THEN Respond(r, 404, ErrorBody(NotFound)) /\ UNCHANGED store
       ELSE \E d \in FindByEnglish(store, req[r].param) :
              IF ~StoreAccepts(store \ {d}, ApplyUpdate(d, req[r].body))
              THEN Respond(r, 500, ErrorBody(InternalError)) /\ UNCHANGED store
              ELSE /\ store' = (store \ {d}) \cup {ApplyUpdate(d, req[r].body)}
                   /\ Respond(r, 200, DocsBody("pokemon",
                         {WithIntegrityHash(ApplyUpdate(d, req[r].body), secret)}))
  /\ UNCHANGED <<images, auditLog, secret, req, auditPlan, local,
                 cleanSincePurge, sealVars>>

\* await pokemon.findOneAndDelete({'name.english': pokeName})
DeleteStep(r) ==
  /\ pc[r] = "delete"
  /\ \E ok \in BOOLEAN :
       IF ~ok THEN Respond(r, 500, ErrorBody(InternalError)) /\ UNCHANGED store
       ELSE IF FindByEnglish(store, req[r].param) = {}
       THEN Respond(r, 404, ErrorBody(NotFound)) /\ UNCHANGED store
       ELSE \E d \in FindByEnglish(store, req[r].param) :
              /\ store' = store \ {d}
              /\ Respond(r, 200, DocsBody("deleted", {WithIntegrityHash(d, secret)}))
  /\ UNCHANGED <<images, auditLog, secret, req, auditPlan, local,
                 cleanSincePurge, sealVars>>

\* await pokemon.deleteMany({})
PurgeStep(r) ==
  /\ pc[r] = "purge"
  /\ \E ok \in BOOLEAN :
       IF ~ok
       THEN Respond(r, 500, ErrorBody(InternalError)) /\ UNCHANGED <<store, cleanSincePurge>>
       ELSE /\ store' = DeleteMany(store)
            /\ cleanSincePurge' = TRUE
            /\ Respond(r, 200, [NoBodySent EXCEPT !.kind = "purged",
                  !.deletedCount = Cardinality(store) - Cardinality(DeleteMany(store))])
  /\ UNCHANGED <<images, auditLog, secret, req, auditPlan, local, sealVars>>

-----------------------------------------------------------------------------
(* GET /pokemons, GET /pokemons/:id, GET /pokemonByName/:name *)

\* await pokemon.find({}), then every document sealed.
ListStep(r) ==
  /\ pc[r] = "list"
  /\ \E ok \in BOOLEAN :
       IF ~ok THEN Respond(r, 500, ErrorBody(InternalError))
       ELSE Respond(r, 200, DocsBody("list", {WithIntegrityHash(d, secret) : d \in store}))
  /\ UNCHANGED <<store, images, auditLog, secret, req, auditPlan, local,
                 cleanSincePurge, sealVars>>

\* What a lookup sends once findOne has answered with the documents `found`
\* it may return (none when empty).
LookupReply(r, found) ==
  IF found = {} THEN Respond(r, 404, ErrorBody(NotFound))
  ELSE \E d \in found : Respond(r, 200, DocsBody("pokemon", {WithIntegrityHash(d, secret)}))

\* The same in the legacy application: `if (poke) res.json(poke)` and nothing
\* else; the handler returns without sending anything on a miss.
LegacyLookupReply(r, found) ==
  IF found = {}
  THEN pc' = [pc EXCEPT ![r] = "returned"] /\ UNCHANGED <<status, respBody>>
  ELSE \E d \in found :
         Respond(r, 200, DocsBody("pokemon", {[doc |-> d, integrityHash |-> NoHash]}))

GetByIdStep(r) ==
  /\ pc[r] = "getById"
  /\ req[r].app = "main"
  /\ \E ok \in BOOLEAN :
       IF ~ok THEN Respond(r, 500, ErrorBody(InternalError))
       ELSE LookupReply(r, FindById(store, ParseInt(req[r].param)))
  /\ UNCHANGED <<store, images, auditLog, secret, req, auditPlan, local,
                 cleanSincePurge, sealVars>>

GetByNameStep(r) ==
  /\ pc[r] = "getByName"
  /\ req[r].app = "main"
  /\ \E ok \in BOOLEAN :
       IF ~ok THEN Respond(r, 500, ErrorBody(InternalError))
       ELSE LookupReply(r, FindByEnglish(store, req[r].param))
  /\ UNCHANGED <<store, images, auditLog, secret, req, auditPlan, local,
                 cleanSincePurge, sealVars>>

LegacyGetByIdStep(r) ==
  /\ pc[r] = "getById"
  /\ req[r].app = "legacy"
  /\ \E ok \in BOOLEAN :
       IF ~ok THEN Respond(r, 500, ErrorBody(InternalError))
       ELSE LegacyLookupReply(r, FindById(store, ParseInt(req[r].param)))
  /\ UNCHANGED <<store, images, auditLog, secret, req, auditPlan, local,
                 cleanSincePurge, sealVars>>

LegacyGetByNameStep(r) ==
  /\ pc[r] = "getByName"
  /\ req[r].app = "legacy"
  /\ \E ok \in BOOLEAN :
       IF ~ok THEN Respond(r, 500, ErrorBody(InternalError))
       ELSE LegacyLookupReply(r, FindByEnglish(store, req[r].param))
  /\ UNCHANGED <<store, images, auditLog, secret, req, auditPlan, local,
                 cleanSincePurge, sealVars>>

-----------------------------------------------------------------------------
(* The response's 'finish' event *)

\* The document the listener hands to auditLog.create.
AuditEntry(r) ==
  [req |-> r, action |-> auditPlan[r].action,
   pokemonName |-> auditPlan[r].pokemonName, statusCode |-> status[r]]

\* auditLog.create(entry): the collection afterwards; a validation error is
\* caught and logged, and leaves the collection as it was.
AuditCreate(log, entry) == IF AuditLogValid(entry) THEN log \cup {entry} ELSE log

\* The response has been flushed: the listener, when there is one, writes the
\* audit entry.  The request and its response are gone afterwards.
Finish(r) ==
  /\ pc[r] = "finish"
  /\ auditLog' = IF auditPlan[r] = NoAudit THEN auditLog
                 ELSE AuditCreate(auditLog, AuditEntry(r))
  /\ pc' = [pc EXCEPT ![r] = "done"]
  /\ req' = [req EXCEPT ![r] = NoReq]
  /\ status' = [status EXCEPT ![r] = 0]
  /\ respBody' = [respBody EXCEPT ![r] = NoBodySent]
  /\ auditPlan' = [auditPlan EXCEPT ![r] = NoAudit]
  /\ local' = [local EXCEPT ![r] = NoLocal]
  /\ UNCHANGED <<store, images, secret, cleanSincePurge, sealVars>>

Next ==
  \E r \in Reqs :
    \/ Receive(r)
    \/ CreateDupCheck(r)
    \/ CreateLatest(r)
    \/ CreateFetch(r)
    \/ CreateWrite(r)
    \/ CreateInsert(r)
    \/ UpdateStep(r)
    \/ DeleteStep(r)
    \/ PurgeStep(r)
    \/ ListStep(r)
    \/ GetByIdStep(r)
    \/ GetByNameStep(r)
    \/ LegacyGetByIdStep(r)
    \/ LegacyGetByNameStep(r)
    \/ Finish(r)

Spec == Init /\ [][Next]_vars

-----------------------------------------------------------------------------
(* The sealer on its own: two documents whose base mappings hold the same   *)
(* pairs, read under one secret.                                            *)

RECURSIVE SeqsOver(_, _)
\* The sequences of at most n elements of S.
SeqsOver(S, n) ==
  IF n = 0 THEN {<<>>}
  ELSE LET shorter == SeqsOver(S, n - 1)
       IN  shorter \cup {Append(q, x) : q \in shorter, x \in S}

\* Objects of at most MaxKeys stats: no key twice.
Mappings ==
  {m \in SeqsOver(StatKeys \X StatValues, MaxKeys) :
      \A i, j \in 1..Len(m) : i # j => m[i][1] # m[j][1]}

\* The same key/value pairs, in any insertion order.
SamePairs(m1, m2) ==
  /\ Len(m1) = Len(m2)
  /\ {m1[i] : i \in 1..Len(m1)} = {m2[i] : i \in 1..Len(m2)}

SealInit ==
  /\ ServerInit
  /\ secret \in Secrets
  /\ \E m1 \in Mappings : \E m2 \in Mappings :
       SamePairs(m1, m2) /\ sealStats = <<m1, m2>>
  /\ sealHash = <<NoHash, NoHash>>

\* A stored document whose base is the i-th mapping.
SealDoc(i) ==
  [_id |-> i, id |-> i, english |-> "Pika", french |-> "Pika",
   base |-> ObjBase(sealStats[i]), image |-> <<i, ".png">>]

\* A read of the i-th document: withIntegrityHash attaches integrityHash.
ReadSeal(i) ==
  /\ sealHash[i] = NoHash
  /\ sealHash' = [sealHash EXCEPT ![i] = WithIntegrityHash(SealDoc(i), secret).integrityHash]
  /\ UNCHANGED <<serverVars, secret, sealStats>>

SealNext == \E i \in 1..2 : ReadSeal(i)

SealSpec == SealInit /\ [][SealNext]_vars

-----------------------------------------------------------------------------
(* Properties *)

Mutating(route) == Method(route) \in {"POST", "PUT", "DELETE"}

\* Two names equal ignoring case.
EqualIgnoringCase(a, b) == Lower(a) = Lower(b)

\* Some stored record has the body's english name or its french name, ignoring case.
NameTaken(docs, body) ==
  \E d \in docs : \/ EqualIgnoringCase(d.english, body.name.english)
                  \/ EqualIgnoringCase(d.french, body.name.french)

\* Request r has left nothing in the Record Store or the image directory.
LeftNothing(r) ==
  /\ \A d \in store : d._id # r
  /\ \A f \in images : f.by # r

\* Request r's handler takes its step at the await named at.
Steps(r, at) == pc[r] = at /\ pc'[r] # at

C1_Rejected ==
  \A r \in Reqs :
    (req[r].route = Create /\ status[r] = 409)
      => (pc[r] = "finish" /\ local[r] = NoLocal /\ LeftNothing(r))

C1_CheckStep ==
  \A r \in Reqs :
    (Steps(r, "dupCheck") /\ NameTaken(store, req[r].body))
      => /\ \/ status'[r] = 409
            \/ status'[r] = 500 /\ respBody'[r] = ErrorBody(StoreDown)
         /\ store' = store
         /\ images' = images

\* C1: a Create whose duplicate query is answered while some stored record has
\* its english name or its french name, ignoring case, is answered 409 (500
\* only when the store fails the query); the step changes neither the Record
\* Store nor the image directory, and a Create answered 409 has computed no id,
\* fetched no image, written no file and inserted no record.
C1_DuplicateRejected == [](C1_Rejected) /\ [][C1_CheckStep]_vars

\* A Create named "pika" answered 409 while "Pika" is stored.
C1_Witness ==
  \E r \in Reqs :
    /\ req[r].route = Create
    /\ status[r] = 409
    /\ req[r].body.name.english = "pika"
    /\ \E d \in store : d.english = "Pika"

\* C2: no two distinct records have english names equal ignoring case, nor
\* french names equal ignoring case, in any state of the Record Store reached
\* from the empty store.
C2_NamesUnique ==
  \A d1 \in store : \A d2 \in store :
    d1 # d2 => /\ ~EqualIgnoringCase(d1.english, d2.english)
               /\ ~EqualIgnoringCase(d1.french, d2.french)

C3_FinishStep ==
  \A r \in Reqs :
    (pc[r] = "finish" /\ pc'[r] = "done")
      => IF Mutating(req[r].route)
         THEN /\ Cardinality(auditLog' \ auditLog) = 1
              /\ \A e \in auditLog' \ auditLog :
                   /\ e.action = (CASE req[r].route = Create -> "CREATE"
                                    [] req[r].route = Update -> "UPDATE"
                                    [] OTHER -> "DELETE")
                   /\ e.statusCode = status[r]
         ELSE auditLog' = auditLog

\* C3: when the response of a POST, PUT or DELETE request has finished, one
\* audit entry is written, with action CREATE, UPDATE or DELETE after the
\* method and with the status code that was sent; the finish of a GET
\* response writes none; and no entry is written at any other moment.
C3_EveryMutationAudited ==
  [][C3_FinishStep /\ ((\A r \in Reqs : ~(pc[r] = "finish" /\ pc'[r] = "done"))
                          => auditLog' = auditLog)]_vars

\* The image response the fetcher must refuse: a status that is not
\* successful, or a content type that is no image/ type (media types are
\* compared ignoring case).
RefusedImage(outcome) ==
  /\ ~outcome.thrown
  /\ outcome # NoOutcome
  /\ \/ ~outcome.ok
     \/ Lower(outcome.contentType) \notin {"image/png", "image/gif", "image/webp"}

C4_Failed ==
  \A r \in Reqs :
    (req[r].route = Create /\ RefusedImage(local[r].outcome))
      => (status[r] = 500 /\ pc[r] = "finish" /\ LeftNothing(r))

C4_FinishStep ==
  \A r \in Reqs :
    (pc[r] = "finish" /\ pc'[r] = "done" /\ req[r].route = Create
       /\ RefusedImage(local[r].outcome))
      => \A e \in auditLog' \ auditLog : e.action = "CREATE" /\ e.statusCode = 500

\* C4: a Create whose image fetch came back with a non-successful status or a
\* content type that is no image/ type is answered 500, has inserted no record
\* and written no image file, and an audit entry written for it has action
\* CREATE and statusCode 500.
C4_BadImageFailsCreate == [](C4_Failed) /\ [][C4_FinishStep]_vars

\* A Create answered 500 after a text/html response to its image fetch.
C4_Witness ==
  \E r \in Reqs :
    /\ req[r].route = Create
    /\ local[r].outcome.ok
    /\ local[r].outcome.contentType = "text/html"
    /\ status[r] = 500
    /\ auditPlan[r].action = "CREATE"

\* C5: the ids of the stored records are positive, and no two records share
\* an id.  Stated for the case the claim singles out, records created under
\* different names: two records whose names do not collide have different ids.
C5_IdsUnique ==
  /\ \A d \in store : d.id >= 1
  /\ \A d1 \in store : \A d2 \in store :
       (/\ d1 # d2
        /\ ~EqualIgnoringCase(d1.english, d2.english)
        /\ ~EqualIgnoringCase(d1.french, d2.french)) => d1.id # d2.id

\* The field of the required shape a body violates first, in the order name,
\* type, base, imageUrl, as its message; "" for a body of the required shape.
FirstViolation(body) ==
  IF \/ body.name.t # "object"
     \/ body.name.english \in {Undefined, ""}
     \/ body.name.french \in {Undefined, ""}
  THEN NameMessage
  ELSE IF body.type # TypeList THEN TypeMessage
  ELSE IF body.base.t # "object" THEN BaseMessage
  ELSE IF body.imageUrl \in {Undefined, "", NumberValue} THEN ImageUrlMessage
  ELSE ""

\* C6: a Create whose body violates the required shape is answered 400 with
\* the message of the first violated field, before any await: it is never at
\* the duplicate query or beyond, has computed no id, fetched no image, written
\* no file and inserted no record.
C6_ShapeRejected ==
  \A r \in Reqs :
    (req[r].route = Create /\ FirstViolation(req[r].body) # "")
      => /\ pc[r] = "finish"
         /\ status[r] = 400
         /\ respBody[r] = ErrorBody(FirstViolation(req[r].body))
         /\ local[r] = NoLocal
         /\ LeftNothing(r)

\* A Create with an empty type list and no base, answered with the message of
\* type, while the store holds a record of its name.
C6_Witness ==
  \E r \in Reqs :
    /\ req[r].route = Create
    /\ req[r].body.type = "[]"
    /\ req[r].body.base = NoBase
    /\ req[r].body.name.english = "Pika"
    /\ status[r] = 400
    /\ respBody[r].error = TypeMessage
    /\ \E d \in store : d.english = "Pika"

\* C7: a Get-by-id or Get-by-name whose handler has run to its end has sent
\* a response, with status 200, 404 or 500: a lookup is never left without one.
C7_LookupAnswered ==
  \A r \in Reqs :
    (req[r].route \in {GetById, GetByName} /\ pc[r] \in {"finish", "returned"})
      => status[r] \in {200, 404, 500}

C8_ListStep ==
  \A r \in Reqs :
    (Steps(r, "list") /\ status'[r] = 200 /\ cleanSincePurge)
      => respBody'[r].docs = {}

C8_PurgeStep ==
  \A r \in Reqs :
    (Steps(r, "purge") /\ status'[r] = 200)
      => /\ respBody'[r].deletedCount = Cardinality(store)
         /\ store' = {}

\* C8: a List-all whose query runs after a successful Purge, with no insert
\* by a Create in between, returns an empty collection; a successful Purge
\* leaves the store empty and reports as deletedCount the number of records
\* the store held.
C8_PurgeThenList == [][C8_ListStep /\ C8_PurgeStep]_vars

\* A Purge that reported a deleted record, and a List-all received after it
\* that returned the empty collection.
C8_Witness ==
  \E p \in Reqs : \E l \in Reqs :
    /\ p < l
    /\ req[p].route = Purge /\ status[p] = 200 /\ respBody[p].deletedCount >= 1
    /\ req[l].route = ListAll /\ status[l] = 200 /\ respBody[l].docs = {}
    /\ cleanSincePurge

\* C9: two mappings with the same key/value pairs, in whatever insertion
\* order, get the same seal under one secret: the integrityHash values read
\* for two such documents are equal.
C9_SealOrderIndependent ==
  (sealHash[1] # NoHash /\ sealHash[2] # NoHash) => sealHash[1] = sealHash[2]

\* The subject name by the claimed precedence: the path parameter, the body's
\* name when a non-empty plain string, name.english, name.french, "unknown".
SubjectName(request) ==
  IF request.param # Undefined THEN request.param
  ELSE IF request.body.name.t = "string" /\ request.body.name.s # "" THEN request.body.name.s
  ELSE IF request.body.name.t = "object" /\ Truthy(request.body.name.english)
  THEN request.body.name.english
  ELSE IF request.body.name.t = "object" /\ Truthy(request.body.name.french)
  THEN request.body.name.french
  ELSE "unknown"

C10_FinishStep ==
  \A r \in Reqs :
    (pc[r] = "finish" /\ pc'[r] = "done" /\ req[r].route \in {Update, Delete})
      => \A e \in auditLog' \ auditLog : e.pokemonName = SubjectName(req[r])

\* C10: the audit entry written for an Update or a Delete of name N has
\* pokemonName N, the path parameter, whatever the body holds.
C10_AuditedUnderPathName == [][C10_FinishStep]_vars

C11_CheckStep ==
  \A r \in Reqs :
    (Steps(r, "dupCheck") /\ ~NameTaken(store, req[r].body) /\ status'[r] # 500)
      => pc'[r] = "latest"

C11_InsertStep ==
  \A r \in Reqs :
    (Steps(r, "insert") /\ status'[r] # 500)
      => /\ status'[r] = 201
         /\ store' = store \cup {NewPokemon(r)}

\* C11: the duplicate check of a Create looks at the stored records only, so
\* it passes while another Create of the same name is between its own check
\* and its insert; and the insert, unless the store fails it, adds the record
\* and answers 201 whatever records the store holds by then.  Two concurrent
\* Creates of one name can thus both insert.
C11_CheckThenInsertRace == [][C11_CheckStep /\ C11_InsertStep]_vars

\* Two Creates of the same name, both answered 201, and their two records
\* both stored.
C11_Witness ==
  \E r1 \in Reqs : \E r2 \in Reqs :
    /\ r1 # r2
    /\ req[r1].route = Create /\ req[r2].route = Create
    /\ req[r1].body.name = req[r2].body.name
    /\ status[r1] = 201 /\ status[r2] = 201
    /\ \E d1 \in store : \E d2 \in store :
         /\ d1._id = r1 /\ d2._id = r2
         /\ d1.english = d2.english /\ d1.french = d2.french

====
